---- MODULE Spec2Model ----
(***************************************************************************)
(* Model of src/mongodb_processor.py: the record normalizer                *)
(* (MongoDBProcessor.normalize_analyst_output) as operators over Python    *)
(* values, and the backfill + change-stream pipeline (MongoDBProcessor.run)*)
(* as a state machine.                                                     *)
(***************************************************************************)
EXTENDS Integers, Sequences, FiniteSets, TLC

(***************************************************************************)
(* Bounds of the model.                                                    *)
(***************************************************************************)
MaxRecords == 2        \* records in one normalize_analyst_output call
MaxNested == 1         \* sub-records in one nested list
MaxSourceDocs == 1     \* documents in the source collection at backfill
MaxNotifications == 2  \* change notifications the stream delivers
MaxRetries == 3        \* the largest value of the parameter retries

(***************************************************************************)
(* Python values.  A value is a record [tag, val]; a dict keeps its        *)
(* insertion order, so it is a sequence of <<key, value>> pairs with       *)
(* pairwise distinct keys.                                                 *)
(***************************************************************************)
None == [tag |-> "none", val |-> <<>>]
Str(s) == [tag |-> "str", val |-> s]
List(items) == [tag |-> "list", val |-> items]
Dict(pairs) == [tag |-> "dict", val |-> pairs]

\* Python truthiness, as used by `if column_name:`, `if keys_to_select:`,
\* `if key_rename_map:`.
Truthy(x) ==
    CASE x.tag = "none" -> FALSE
      [] x.tag = "str" -> x.val # ""
      [] x.tag = "list" -> Len(x.val) > 0
      [] x.tag = "dict" -> Len(x.val) > 0
      [] OTHER -> TRUE

\* isinstance(x, list) / isinstance(x, dict)
IsList(x) == x.tag = "list"
IsDict(x) == x.tag = "dict"

\* k in d
HasKey(pairs, k) == \E i \in DOMAIN pairs : pairs[i][1] = k
\* d[k]
GetKey(pairs, k) == pairs[CHOOSE i \in DOMAIN pairs : pairs[i][1] = k][2]
\* d.pop(k, None)
DictPop(pairs, k) == SelectSeq(pairs, LAMBDA p : p[1] # k)
\* d[k] = v : an existing key keeps its position, a new key goes last
DictSet(pairs, k, v) ==
    IF HasKey(pairs, k)
    THEN [i \in DOMAIN pairs |-> IF pairs[i][1] = k THEN <<k, v>> ELSE pairs[i]]
    ELSE Append(pairs, <<k, v>>)
\* d.update(e)
RECURSIVE DictUpdate(_, _)
DictUpdate(pairs, e) ==
    IF e = <<>> THEN pairs
    ELSE DictUpdate(DictSet(pairs, Head(e)[1], Head(e)[2]), Tail(e))
\* m.get(k, k)
MapGet(m, k) == IF HasKey(m, k) THEN GetKey(m, k) ELSE k
\* k in keys_to_select (a list)
InList(k, items) == \E i \in DOMAIN items : items[i] = k

\* str(uuid.uuid4()): the n-th draw of a call.  A draw is a token of its own
\* kind: it equals no input string and no other draw.
uuid4(n) == [tag |-> "uuid", val |-> n]

(***************************************************************************)
(* normalize_analyst_output                                                *)
(***************************************************************************)
\* the default of the parameter keys_to_select
DefaultKeysToSelect ==
    List(<<"article_db_id", "artical_db_id", "published_datetime", "pair",
           "category_name">>)

\* all(...) written for any(...)
AnyRecordHas_All(data, c) == \A i \in DOMAIN data.val : HasKey(data.val[i].val, c)

\* any(c in record for record in data)
AnyRecordHas(data, c) == \E i \in DOMAIN data.val : HasKey(data.val[i].val, c)

\* "Determine the column to process": the column name, or the error raised.
DetermineColumn(data, column_name) ==
    IF Truthy(column_name)
    THEN IF AnyRecordHas(data, column_name.val)
         THEN [err |-> "none", col |-> column_name.val]
         ELSE [err |-> "missing_column", col |-> ""]
    ELSE IF AnyRecordHas(data, "analyst_consensus_output")
         THEN [err |-> "none", col |-> "analyst_consensus_output"]
         ELSE IF AnyRecordHas(data, "analyst_outputs")
              THEN [err |-> "none", col |-> "analyst_outputs"]
              ELSE [err |-> "missing_column", col |-> ""]

\* a loop that skips the sub-records that are not dicts
NestedItems_DictsOnly(record, column) ==
    IF HasKey(record.val, column) /\ IsList(GetKey(record.val, column))
    THEN SelectSeq(GetKey(record.val, column).val, IsDict)
    ELSE <<>>

\* the sub-records the inner loop iterates for one record: none unless the
\* column is in the record and holds a list
NestedItems(record, column) ==
    IF HasKey(record.val, column) /\ IsList(GetKey(record.val, column))
    THEN GetKey(record.val, column).val
    ELSE <<>>

\* copy of the record without the nested column and `_id`, overlaid with the
\* sub-record when that is a dict
MergeNested(record, nested, column) ==
    LET copied == DictPop(DictPop(record.val, column), "_id")
    IN  IF IsDict(nested) THEN DictUpdate(copied, nested.val) ELSE copied

\* a selection that tests `k in flattened_record` and so keeps every key
SelectKeys_KeepsAll(flattened, keys_to_select) ==
    IF Truthy(keys_to_select)
    THEN SelectSeq(flattened, LAMBDA p : HasKey(flattened, p[1]))
    ELSE flattened

\* "Select specific keys if provided"
SelectKeys(flattened, keys_to_select) ==
    IF Truthy(keys_to_select)
    THEN SelectSeq(flattened, LAMBDA p : InList(p[1], keys_to_select.val))
    ELSE flattened

\* "Rename keys if a renaming map is provided": the comprehension inserts
\* the renamed keys in order, a later one overwriting an earlier one
RECURSIVE RenameInto(_, _, _)
RenameInto(acc, flattened, m) ==
    IF flattened = <<>> THEN acc
    ELSE RenameInto(DictSet(acc, MapGet(m, Head(flattened)[1]), Head(flattened)[2]),
                    Tail(flattened), m)

RenameKeys(flattened, key_rename_map) ==
    IF Truthy(key_rename_map)
    THEN RenameInto(<<>>, flattened, key_rename_map.val)
    ELSE flattened

\* flattened_record.setdefault("signal_id", ...) written for the assignment
AssignSignalId_SetDefault(flattened, uid) ==
    IF HasKey(flattened, "signal_id") THEN flattened
    ELSE Append(flattened, <<"signal_id", uid>>)

\* "Add a unique signal ID"
AssignSignalId(flattened, uid) == DictSet(flattened, "signal_id", uid)

\* one iteration of the inner loop: the Output Record of (record, nested)
FlattenRecord(record, nested, column, keys_to_select, key_rename_map, uid) ==
    AssignSignalId(
        RenameKeys(SelectKeys(MergeNested(record, nested, column), keys_to_select),
                   key_rename_map),
        uid)

\* the Output Records of one record; drawn is the number of uuid4 draws made
\* before it
RecordOutputs(record, column, keys_to_select, key_rename_map, drawn) ==
    LET items == NestedItems(record, column)
    IN  [j \in 1..Len(items) |->
            FlattenRecord(record, items[j], column, keys_to_select,
                          key_rename_map, uuid4(drawn + j))]

\* the outer loop
RECURSIVE NormalizeLoop(_, _, _, _, _)
NormalizeLoop(records, column, keys_to_select, key_rename_map, normalized_data) ==
    IF records = <<>> THEN normalized_data
    ELSE NormalizeLoop(Tail(records), column, keys_to_select, key_rename_map,
             normalized_data \o RecordOutputs(Head(records), column, keys_to_select,
                                              key_rename_map, Len(normalized_data)))

\* normalize_analyst_output(data, column_name, keys_to_select, key_rename_map):
\* the list returned, or the error raised
normalize_analyst_output(data, column_name, keys_to_select, key_rename_map) ==
    IF ~IsList(data) THEN [err |-> "invalid_input", out |-> <<>>]
    ELSE LET det == DetermineColumn(data, column_name)
         IN  IF det.err # "none" THEN [err |-> det.err, out |-> <<>>]
             ELSE [err |-> "none",
                   out |-> NormalizeLoop(data.val, det.col, keys_to_select,
                                         key_rename_map, <<>>)]

(***************************************************************************)
(* Inputs of the normalizer.                                               *)
(***************************************************************************)
\* all sequences over S of length at most n
SeqsUpTo(S, n) == UNION {[1..k -> S] : k \in 0..n}

\* a dict whose keys, in order, are ks and whose values are all v
DictOf(ks, v) == Dict([i \in DOMAIN ks |-> <<ks[i], v>>])

\* sub-records: one that is not a dict, a dict with a plain key, and a dict
\* that carries the reserved keys itself
SubRecords ==
    {Str("sv"), DictOf(<<"pair">>, Str("sv")),
     DictOf(<<"_id", "signal_id", "analyst_outputs">>, Str("sv"))}

\* the fields of a record other than its nested column
ParentFields == <<"_id", "pair", "signal_id">>

\* what a record holds under a nested-column name: a list of sub-records,
\* or a value that is not a list
NestedValues == {List(l) : l \in SeqsUpTo(SubRecords, MaxNested)} \cup {Str("pv")}

ColumnNames == {"analyst_consensus_output", "analyst_outputs"}

\* records: without a nested column, or with one of the two
Records ==
    {DictOf(ParentFields, Str("pv"))}
    \cup {Dict(Append(DictOf(ParentFields, Str("pv")).val, <<c, nv>>)) :
            c \in ColumnNames, nv \in NestedValues}

\* data: a list of records, or something that is not a list
DataInputs == {List(l) : l \in SeqsUpTo(Records, MaxRecords)} \cup {None}

\* column_name: omitted, a nested column, or a field that holds no list
ColumnNameInputs == {None, Str("analyst_outputs"), Str("pair")}

KeysToSelectInputs ==
    {List(<<>>), DefaultKeysToSelect,
     List(<<"pair", "_id", "analyst_outputs", "signal_id">>)}

KeyRenameMapInputs ==
    {None, Dict(<<<<"pair", "symbol">>>>),
     Dict(<<<<"pair", "_id">>, <<"signal_id", "analyst_outputs">>>>),
     Dict(<<<<"pair", "signal_id">>>>)}

(***************************************************************************)
(* Inputs of the pipeline: what the storage service holds, delivers and    *)
(* answers.                                                                *)
(***************************************************************************)
\* what source_collection.find() can return
SourceContents == SeqsUpTo(Records, MaxSourceDocs)

\* documents inserted into the source while the stream is open
NewDocuments ==
    {<<<<"_id", Str("d1")>>, <<"pair", Str("p1")>>>>,
     <<<<"_id", Str("d2")>>, <<"pair", Str("p2")>>>>}

\* change notifications: inserts carry the full document
Notifications ==
    {[operationType |-> "insert", fullDocument |-> d] : d \in NewDocuments}
    \cup {[operationType |-> op, fullDocument |-> <<>>] : op \in {"update", "delete"}}

\* how a call into pymongo can end: normally, or by raising an exception of
\* one of these classes ("OtherError" is neither a ValueError nor a
\* PyMongoError, e.g. TypeError or KeyboardInterrupt)
FindOutcomes == {"ok", "PyMongoError"}
InsertManyOutcomes == {"ok", "PyMongoError", "OtherError"}
WatchOutcomes == {"ok", "PyMongoError", "OtherError"}
NextOutcomes == {"change", "StopIteration", "PyMongoError", "OtherError"}
InsertOneOutcomes == {"ok", "ValueError", "PyMongoError", "OtherError"}

(***************************************************************************)
(* State.                                                                  *)
(***************************************************************************)
VARIABLES
    data, column_name, keys_to_select, key_rename_map,  \* arguments of the
                  \* normalize_analyst_output call
    called,       \* whether that call has been made
    result,       \* what it returned or raised
    pc,           \* where run() is: "start", "tail", "subscribed", "handling",
                  \* "returned", "raised"
    target,       \* the documents of the target collection, in insertion order
    client_closed,        \* whether client.close() has been called
    insert_many_outcome,  \* how the backfill's insert_many ended ("none": not called)
    delivered,    \* the notifications the stream has yielded, in order
    change,       \* the loop variable of the change stream
    attempts,     \* the insert_one calls made, in order, each with its outcome
    raised,       \* the exception run() raised ("none": none)
    log,          \* the lines printed
    retries,      \* get_market_data_with_proxy: the parameter retries
    retry_count,  \* its local retry_count
    rpc,          \* where it is: "loop" (at the while test), "sleep", "done"
    requests,     \* how each requests.get call it made ended, in order
    sleeps,       \* the arguments of its time.sleep calls, in order
    ret           \* what it returned

normVars == <<data, column_name, keys_to_select, key_rename_map, called, result>>
runVars == <<pc, target, client_closed, insert_many_outcome, delivered, change,
             attempts, raised, log>>
retryVars == <<retries, retry_count, rpc, requests, sleeps, ret>>
vars == <<normVars, runVars, retryVars>>

NoChange == [operationType |-> "none", fullDocument |-> <<>>]

\* the state of a processor that has been constructed and not yet run
RunInit ==
    /\ pc = "start"
    /\ target = <<>>
    /\ client_closed = FALSE
    /\ insert_many_outcome = "none"
    /\ delivered = <<>>
    /\ change = NoChange
    /\ attempts = <<>>
    /\ raised = "none"
    /\ log = <<>>

\* get_market_data_with_proxy at its first statement, called with the default
\* retries=3
RetryIdle ==
    /\ retries = 3
    /\ retry_count = 0
    /\ rpc = "loop"
    /\ requests = <<>>
    /\ sleeps = <<>>
    /\ ret = None

(***************************************************************************)
(* The normalizer called on its own (it is a static method).               *)
(***************************************************************************)
NormInit ==
    /\ data \in DataInputs
    /\ column_name \in ColumnNameInputs
    /\ keys_to_select \in KeysToSelectInputs
    /\ key_rename_map \in KeyRenameMapInputs
    /\ called = FALSE
    /\ result = [err |-> "none", out |-> <<>>]
    /\ RunInit
    /\ RetryIdle

NormalizeCall ==
    /\ ~called
    /\ called' = TRUE
    /\ result' = normalize_analyst_output(data, column_name, keys_to_select,
                                          key_rename_map)
    /\ UNCHANGED <<data, column_name, keys_to_select, key_rename_map>>
    /\ UNCHANGED <<runVars, retryVars>>

NormNext == NormalizeCall

SpecNorm == NormInit /\ [][NormNext]_vars

(***************************************************************************)
(* The pipeline: run() = process_existing_data(); start_change_stream().   *)
(***************************************************************************)
Init ==
    /\ data = None
    /\ column_name = None
    /\ keys_to_select = DefaultKeysToSelect
    /\ key_rename_map = None
    /\ called = FALSE
    /\ result = [err |-> "none", out |-> <<>>]
    /\ RunInit
    /\ RetryIdle

\* `except PyMongoError` in process_existing_data written as the tailer's
\* inner handler is, `except ValueError`
InsertManyCaught_ValueError(exc) == exc = "ValueError"

\* `except PyMongoError as e` around insert_many: the exceptions it catches
InsertManyCaught(exc) == exc = "PyMongoError"

\* `except ValueError as e` around insert_one: the exceptions it catches
InsertOneCaught(exc) == exc = "ValueError"

\* `except PyMongoError as e` around the change stream: the exceptions it catches
StreamCaught(exc) == exc = "PyMongoError"

\* `finally: self.client.close(); print("Connection closed.")`
Finally(lines) == Append(lines, "Connection closed.")

\* process_existing_data(), called first by run(): find() and the normalizer
\* are outside the try, insert_many is inside it and only a PyMongoError is
\* caught there.
ProcessExistingData ==
    /\ pc = "start"
    /\ \E found \in FindOutcomes, docs \in SourceContents, bulk \in InsertManyOutcomes :
         IF found # "ok"
         THEN \* find() raises: the error leaves run()
              /\ pc' = "raised"
              /\ raised' = found
              /\ log' = Append(log, "Processing existing data...")
              /\ UNCHANGED <<normVars, target, insert_many_outcome>>
         ELSE LET normalized == normalize_analyst_output(List(docs), None,
                                    DefaultKeysToSelect, None)
              IN  /\ data' = List(docs)
                  /\ called' = TRUE
                  /\ result' = normalized
                  /\ UNCHANGED <<column_name, keys_to_select, key_rename_map>>
                  /\ IF normalized.err # "none"
                     THEN \* the normalizer raises ValueError: it leaves run()
                          /\ pc' = "raised"
                          /\ raised' = "ValueError"
                          /\ log' = Append(log, "Processing existing data...")
                          /\ UNCHANGED <<target, insert_many_outcome>>
                     ELSE /\ insert_many_outcome' = bulk
                          /\ CASE bulk = "ok" ->
                                    /\ target' = target \o normalized.out
                                    /\ pc' = "tail"
                                    /\ raised' = raised
                                    /\ log' = log \o <<"Processing existing data...",
                                                       "Processed and inserted existing documents.">>
                               [] bulk # "ok" /\ InsertManyCaught(bulk) ->
                                    /\ target' = target
                                    /\ pc' = "tail"
                                    /\ raised' = raised
                                    /\ log' = log \o <<"Processing existing data...",
                                                       "Error occurred during insert_many">>
                               [] OTHER ->
                                    /\ target' = target
                                    /\ pc' = "raised"
                                    /\ raised' = bulk
                                    /\ log' = Append(log, "Processing existing data...")
    /\ UNCHANGED <<client_closed, delivered, change, attempts, retryVars>>

\* start_change_stream() up to the first iteration: watch() opens the
\* subscription; a PyMongoError is caught by the outer handler.
StartChangeStream ==
    /\ pc = "tail"
    /\ \E opened \in WatchOutcomes :
         CASE opened = "ok" ->
                /\ pc' = "subscribed"
                /\ log' = Append(log, "Listening for new changes...")
                /\ UNCHANGED <<client_closed, raised>>
           [] opened # "ok" /\ StreamCaught(opened) ->
                /\ pc' = "returned"
                /\ client_closed' = TRUE
                /\ log' = Finally(log \o <<"Listening for new changes...",
                                            "Error occurred during change stream">>)
                /\ UNCHANGED raised
           [] OTHER ->
                /\ pc' = "raised"
                /\ raised' = opened
                /\ client_closed' = TRUE
                /\ log' = Finally(Append(log, "Listening for new changes..."))
    /\ UNCHANGED <<normVars, target, insert_many_outcome, delivered, change,
                   attempts, retryVars>>

\* `for change in stream`: the stream yields the next notification, ends, or
\* raises.
StreamNext ==
    /\ pc = "subscribed"
    /\ \E next \in NextOutcomes :
         CASE next = "change" ->
                /\ Len(delivered) < MaxNotifications
                /\ \E n \in Notifications :
                     /\ change' = n
                     /\ delivered' = Append(delivered, n)
                /\ pc' = "handling"
                /\ UNCHANGED <<client_closed, raised, log>>
           [] next = "StopIteration" ->
                /\ pc' = "returned"
                /\ client_closed' = TRUE
                /\ log' = Finally(log)
                /\ UNCHANGED <<change, delivered, raised>>
           [] next \notin {"change", "StopIteration"} /\ StreamCaught(next) ->
                /\ pc' = "returned"
                /\ client_closed' = TRUE
                /\ log' = Finally(Append(log, "Error occurred during change stream"))
                /\ UNCHANGED <<change, delivered, raised>>
           [] OTHER ->
                /\ pc' = "raised"
                /\ raised' = next
                /\ client_closed' = TRUE
                /\ log' = Finally(log)
                /\ UNCHANGED <<change, delivered>>
    /\ UNCHANGED <<normVars, target, insert_many_outcome, attempts, retryVars>>

\* a test that takes every notification for an insert
IsInsert_Always(c) == TRUE

\* change["operationType"] == "insert"
IsInsert(c) == c.operationType = "insert"

\* change["documentKey"] read for change["fullDocument"]
NewDocument_DocumentKey(c) == SelectSeq(c.fullDocument, LAMBDA p : p[1] = "_id")

\* new_document = change["fullDocument"]
NewDocument(c) == c.fullDocument

\* the body of the loop for one notification: an insert is copied to the
\* target with insert_one; the inner handler catches ValueError only, the
\* outer one PyMongoError, anything else leaves run() through the finally.
HandleChange ==
    /\ pc = "handling"
    /\ IF IsInsert(change)
       THEN \E inserted \in InsertOneOutcomes :
              /\ attempts' = Append(attempts, [doc |-> NewDocument(change),
                                               outcome |-> inserted])
              /\ CASE inserted = "ok" ->
                        /\ target' = Append(target, NewDocument(change))
                        /\ pc' = "subscribed"
                        /\ log' = Append(log, "Processed and inserted a document")
                        /\ UNCHANGED <<client_closed, raised>>
                   [] inserted # "ok" /\ InsertOneCaught(inserted) ->
                        /\ pc' = "subscribed"
                        /\ log' = Append(log, "Insertion error")
                        /\ UNCHANGED <<target, client_closed, raised>>
                   [] inserted # "ok" /\ ~InsertOneCaught(inserted)
                        /\ StreamCaught(inserted) ->
                        /\ pc' = "returned"
                        /\ client_closed' = TRUE
                        /\ log' = Finally(Append(log, "Error occurred during change stream"))
                        /\ UNCHANGED <<target, raised>>
                   [] OTHER ->
                        /\ pc' = "raised"
                        /\ raised' = inserted
                        /\ client_closed' = TRUE
                        /\ log' = Finally(log)
                        /\ UNCHANGED target
       ELSE /\ pc' = "subscribed"
            /\ UNCHANGED <<target, attempts, client_closed, raised, log>>
    /\ UNCHANGED <<normVars, insert_many_outcome, delivered, change, retryVars>>

Next ==
    \/ ProcessExistingData
    \/ StartChangeStream
    \/ StreamNext
    \/ HandleChange

Spec == Init /\ [][Next]_vars

(***************************************************************************)
(* src/symbol_finder.py: Symbol_finder.get_market_data_with_proxy, the     *)
(* request loop with retries.                                              *)
(***************************************************************************)
\* bodies of a 200 response: JSON objects with and without the key 'data'
ResponseBodies ==
    {Dict(<<<<"data", List(<<Str("m1")>>)>>>>),
     Dict(<<<<"data", List(<<Str("m1"), Str("m2")>>)>>>>),
     Dict(<<>>)}

\* how one requests.get call can end: a response with a status code, or a
\* requests.exceptions.RequestException (timeout, proxy or connection error)
RequestOutcomes ==
    {[kind |-> "response", status_code |-> 200, body |-> b] : b \in ResponseBodies}
    \cup {[kind |-> "response", status_code |-> c, body |-> Dict(<<>>)] :
            c \in {503, 404, 429, 500}}
    \cup {[kind |-> "RequestException", status_code |-> 0, body |-> Dict(<<>>)]}

\* response.json().get('data', [])
JsonData(body) ==
    IF HasKey(body.val, "data") THEN GetKey(body.val, "data") ELSE List(<<>>)

\* a loop test that lets one request too many through
LoopCondition_Inclusive(count, limit) == count <= limit

\* while retry_count < retries
LoopCondition(count, limit) == count < limit

\* wait_time = 2 ** retry_count
Backoff(count) == 2 ^ count

RetryInit ==
    /\ retries \in 0..MaxRetries
    /\ retry_count = 0
    /\ rpc = "loop"
    /\ requests = <<>>
    /\ sleeps = <<>>
    /\ ret = None
    /\ data = None
    /\ column_name = None
    /\ keys_to_select = DefaultKeysToSelect
    /\ key_rename_map = None
    /\ called = FALSE
    /\ result = [err |-> "none", out |-> <<>>]
    /\ RunInit

\* one pass through the loop body up to the sleep: the request is sent and
\* its outcome handled
SendRequest ==
    /\ rpc = "loop"
    /\ LoopCondition(retry_count, retries)
    /\ \E outcome \in RequestOutcomes :
         /\ requests' = Append(requests, outcome)
         /\ IF outcome.kind = "RequestException"
            THEN /\ retry_count' = retry_count + 1
                 /\ rpc' = "sleep"
                 /\ ret' = ret
            ELSE CASE outcome.status_code = 200 ->
                        /\ ret' = JsonData(outcome.body)
                        /\ rpc' = "done"
                        /\ retry_count' = retry_count
                   [] outcome.status_code = 503 ->
                        /\ retry_count' = retry_count + 1
                        /\ rpc' = "sleep"
                        /\ ret' = ret
                   [] OTHER ->
                        /\ ret' = None
                        /\ rpc' = "done"
                        /\ retry_count' = retry_count
    /\ UNCHANGED <<retries, sleeps, normVars, runVars>>

\* time.sleep(2 ** retry_count), after which the loop test is made again
Sleep ==
    /\ rpc = "sleep"
    /\ sleeps' = Append(sleeps, Backoff(retry_count))
    /\ rpc' = "loop"
    /\ UNCHANGED <<retries, retry_count, requests, ret, normVars, runVars>>

\* the loop test fails: "Failed after {retries} retries", return None
GiveUp ==
    /\ rpc = "loop"
    /\ ~LoopCondition(retry_count, retries)
    /\ ret' = None
    /\ rpc' = "done"
    /\ UNCHANGED <<retries, retry_count, requests, sleeps, normVars, runVars>>

RetryNext == SendRequest \/ Sleep \/ GiveUp

\* the function is sequential code: requests.get returns within its timeout
\* and time.sleep returns, so an enabled step is taken
SpecRetry == RetryInit /\ [][RetryNext]_vars /\ WF_vars(RetryNext)

(***************************************************************************)
(* Properties.  Their helpers are written from the state alone and use     *)
(* none of the operators of the normalizer.                                *)
(***************************************************************************)
Last(q) == q[Len(q)]
InLog(line) == \E i \in DOMAIN log : log[i] = line
ListSet(l) == {l.val[i] : i \in DOMAIN l.val}
KeySet(pairs) == {pairs[i][1] : i \in DOMAIN pairs}
ValueOf(pairs, k) == pairs[CHOOSE i \in DOMAIN pairs : pairs[i][1] = k][2]

\* the call returned a list
Returned == called /\ result.err = "none"

\* some record of data has the key c
SomeRecordHas(c) == \E i \in DOMAIN data.val : c \in KeySet(data.val[i].val)

\* the nested field of the call: the one named, else the recognised one found
ChosenColumn ==
    IF column_name.tag = "str" THEN column_name.val
    ELSE IF SomeRecordHas("analyst_consensus_output")
         THEN "analyst_consensus_output" ELSE "analyst_outputs"

\* the length of a record's nested-field sequence, 0 if absent or not a list
NestedLength(record, c) ==
    IF c \in KeySet(record.val) /\ ValueOf(record.val, c).tag = "list"
    THEN Len(ValueOf(record.val, c).val) ELSE 0

RECURSIVE SumNestedLengths(_, _)
SumNestedLengths(records, c) ==
    IF records = <<>> THEN 0
    ELSE NestedLength(Head(records), c) + SumNestedLengths(Tail(records), c)

\* C1: a failed insert_one for one insert notification does not end the
\* subscription: the step that makes a failing insert attempt leaves the
\* tailer subscribed, ready for the next notification.
C1_FailedInsertKeepsSubscription ==
    [][(pc = "handling" /\ Len(attempts') = Len(attempts) + 1
            /\ Last(attempts').outcome # "ok")
        => pc' = "subscribed"]_vars

\* C2: whenever run() has returned or raised, the client connection has been
\* closed.
C2_ConnectionClosedOnExit == pc \in {"returned", "raised"} => client_closed

\* C3: the call returns as many Output Records as the sum over the input
\* records of the length of the record's nested-field sequence (0 when the
\* field is absent or not a list).
C3_OutputCount ==
    Returned => Len(result.out) = SumNestedLengths(data.val, ChosenColumn)

\* C3 witness: a call over a record with an empty nested list and a record
\* with a non-empty one has returned.
C3_Witness ==
    /\ Returned
    /\ Len(result.out) >= 1
    /\ \E i \in DOMAIN data.val :
         /\ ChosenColumn \in KeySet(data.val[i].val)
         /\ ValueOf(data.val[i].val, ChosenColumn) = List(<<>>)

\* C4 as stated: with a non-empty keys_to_select, no Output Record has a key
\* outside keys_to_select \cup {signal_id}, whatever key_rename_map is.
C4_KeysWithinSelection ==
    (Returned /\ Len(keys_to_select.val) > 0) =>
        \A i \in DOMAIN result.out :
            KeySet(result.out[i]) \subseteq ListSet(keys_to_select) \cup {"signal_id"}

\* the name a selected key has after renaming: key_rename_map.get(k, k)
RenamedKey(k) ==
    IF key_rename_map.tag = "dict" /\ k \in KeySet(key_rename_map.val)
    THEN ValueOf(key_rename_map.val, k) ELSE k

\* C4 amended: with a non-empty keys_to_select, every key of an Output Record
\* is signal_id or the renamed form key_rename_map.get(k, k) of a key k of
\* keys_to_select (selection is applied before renaming).
C4_KeysWithinRenamedSelection ==
    (Returned /\ Len(keys_to_select.val) > 0) =>
        \A i \in DOMAIN result.out :
            KeySet(result.out[i]) \subseteq
                {RenamedKey(k) : k \in ListSet(keys_to_select)} \cup {"signal_id"}

\* C4 witness: a call with the default selection and a renaming map returned
\* a record that carries the renamed key.
C4_Witness ==
    /\ Returned
    /\ keys_to_select = DefaultKeysToSelect
    /\ key_rename_map.tag = "dict"
    /\ \E i \in DOMAIN result.out : "symbol" \in KeySet(result.out[i])

\* C5: no Output Record contains `_id` or the nested-output field.
C5_NoSystemOrNestedField ==
    Returned =>
        \A i \in DOMAIN result.out :
            /\ "_id" \notin KeySet(result.out[i])
            /\ ChosenColumn \notin KeySet(result.out[i])

\* C6: every Output Record carries a signal_id that is a fresh draw, not a
\* value of the input, and no two Output Records of the call share it.
C6_FreshSignalId ==
    Returned =>
        /\ \A i \in DOMAIN result.out :
             /\ "signal_id" \in KeySet(result.out[i])
             /\ ValueOf(result.out[i], "signal_id").tag = "uuid"
        /\ \A i, j \in DOMAIN result.out :
             i # j => ValueOf(result.out[i], "signal_id").val
                        # ValueOf(result.out[j], "signal_id").val

\* C6 witness: a call whose records and sub-records carry signal_id and whose
\* map renames a source key to signal_id returned two records.
C6_Witness ==
    /\ Returned
    /\ Len(result.out) >= 2
    /\ key_rename_map.tag = "dict"
    /\ "signal_id" \in {key_rename_map.val[i][2] : i \in DOMAIN key_rename_map.val}
    /\ \E i \in DOMAIN data.val : "signal_id" \in KeySet(data.val[i].val)

C8_NoTailAfterFailedBackfill ==
    insert_many_outcome = "PyMongoError" => pc \notin {"subscribed", "handling"}

\* C8 amended: a storage error of the backfill's insert_many is caught and
\* logged, and run() goes on to the tail phase.
C8_FailedBackfillLoggedThenTail ==
    insert_many_outcome = "PyMongoError" =>
        /\ InLog("Error occurred during insert_many")
        /\ pc = "tail" \/ InLog("Listening for new changes...")

\* C8 witness: the subscription is open after a failed insert_many.
C8_Witness == insert_many_outcome = "PyMongoError" /\ pc = "subscribed"

\* C9: handling a notification whose operation kind is not "insert" writes
\* nothing to the target, attempts no insert, raises and prints nothing, and
\* leaves the subscription open.
C9_NonInsertIgnored ==
    [][(pc = "handling" /\ change.operationType # "insert") =>
            /\ pc' = "subscribed"
            /\ target' = target
            /\ attempts' = attempts
            /\ raised' = raised
            /\ log' = log
            /\ client_closed' = FALSE]_vars

\* C9 witness: after a notification that is not an insert was handled, the
\* next notification is being handled.
C9_Witness ==
    /\ pc = "handling"
    /\ Len(delivered) = 2
    /\ delivered[1].operationType # "insert"

\* the notifications whose handling is over
Processed ==
    IF pc = "handling" THEN SubSeq(delivered, 1, Len(delivered) - 1) ELSE delivered

\* C10: the insert attempts are exactly the insert notifications handled so
\* far, in delivery order, one attempt each; the one being handled is the
\* last one delivered, and none is retrieved before its attempt is over.
C10_AttemptsFollowDelivery ==
    LET inserts == SelectSeq(Processed, LAMBDA n : n.operationType = "insert")
    IN  /\ Len(attempts) = Len(inserts)
        /\ \A i \in DOMAIN attempts : attempts[i].doc = inserts[i].fullDocument
        /\ pc = "handling" => change = Last(delivered)

\* C10 witness: two different documents were attempted in turn, the first
\* attempt having failed.
C10_Witness ==
    /\ Len(attempts) >= 2
    /\ attempts[1].outcome = "ValueError"
    /\ attempts[1].doc # attempts[2].doc

\* a request that ended in a 503 response or a request exception
Retryable(r) == r.kind = "RequestException" \/ r.status_code = 503

RECURSIVE PowerOfTwo(_)
PowerOfTwo(k) == IF k = 0 THEN 1 ELSE 2 * PowerOfTwo(k - 1)

\* the state part of C11
RetryBehaviour ==
    /\ Len(requests) <= retries
    /\ \A i \in 1..(Len(requests) - 1) : Retryable(requests[i])
    /\ \A k \in DOMAIN sleeps : sleeps[k] = PowerOfTwo(k)
    /\ Len(sleeps) = Cardinality({i \in DOMAIN requests : Retryable(requests[i])})
                        - (IF rpc = "sleep" THEN 1 ELSE 0)
    /\ rpc # "done" => \A i \in DOMAIN requests : Retryable(requests[i])
    /\ rpc = "done" =>
          IF requests # <<>> /\ ~Retryable(Last(requests))
          THEN IF Last(requests).status_code = 200
               THEN ret = (IF "data" \in KeySet(Last(requests).body.val)
                           THEN ValueOf(Last(requests).body.val, "data")
                           ELSE List(<<>>))
               ELSE ret.tag = "none"
          ELSE ret.tag = "none" /\ Len(requests) = retries

====
